---- MODULE Spec2Model ----
(***************************************************************************)
(* A model of lib/ServerlessModule.js: one module entity of the project    *)
(* tree, its child function entities, the caller's documents and the       *)
(* module's directory on disk.                                             *)
(*                                                                         *)
(* Plain JavaScript objects are functions from their own keys to values.   *)
(* The two nested objects of a module (`custom`, `functions`) live in a    *)
(* heap and are held by reference, so that sharing between the entity, a   *)
(* document passed to set() and a document returned by get() is visible.   *)
(***************************************************************************)
EXTENDS Integers, Sequences, FiniteSets, TLC

\* ------------------------------------------------------------------ bounds
MaxFns  == 2            \* entries of a functions map built by the caller

\* ------------------------------------------------------------- value sets
FnNames     == {"f1", "f2"}
CustomVals  == {"c0", "c1"}      \* "c0" is the empty object {}
Component   == "c"
Module      == "m"
ProjectRoot == "/p"
Undef       == "undefined"
NoPath      == <<>>              \* an undefined sPath / fullPath
EmptyDoc    == <<>>              \* the object literal {}

\* Heap cells are named after the document that holds them: an object the
\* entity refers to lives in "e.*", one only the caller's data document holds
\* in "d.*", one only a get() result holds in "s.*"; "t.*" are the cells an
\* operation allocates before its result is stored.
NestedKeys == {"custom", "functions"}
Refs == {"e.custom", "e.functions", "d.custom", "d.functions",
         "s.custom", "s.functions", "t.custom", "t.functions"}
Free == [t |-> "free"]

\* --------------------------------------------------------- generic helpers
Range(s) == {s[i] : i \in DOMAIN s}

\* keys of a functions map (a sequence of <<key, value>> pairs, in insertion order)
Keys(m) == {m[i][1] : i \in DOMAIN m}

IndexOf(m, k) == CHOOSE i \in DOMAIN m : m[i][1] = k

ValueAt(m, k) == m[IndexOf(m, k)][2]

\* obj[k] = v on a functions map: in place when the key exists, appended otherwise
Put(m, k, v) ==
    IF k \in Keys(m)
    THEN [i \in DOMAIN m |-> IF m[i][1] = k THEN <<k, v>> ELSE m[i]]
    ELSE Append(m, <<k, v>>)

\* delete obj[k]
Remove(m, k) == SelectSeq(m, LAMBDA p : p[1] # k)

\* _.assign / _.extend: every own key of src overwrites the target's
Assign(target, src) ==
    [k \in DOMAIN target \cup DOMAIN src |->
        IF k \in DOMAIN src THEN src[k] ELSE target[k]]

\* delete obj[k] on a plain object
Without(doc, k) == [j \in DOMAIN doc \ {k} |-> doc[j]]

\* all sequences of distinct elements of S of length at most n
RECURSIVE DistinctSeqs(_, _)
DistinctSeqs(S, n) ==
    IF n = 0 THEN {<<>>}
    ELSE LET shorter == DistinctSeqs(S, n - 1)
         IN  shorter \cup
             UNION {{Append(s, x) : x \in S \ Range(s)} :
                        s \in {q \in shorter : Len(q) = n - 1}}

\* the orders in which a directory listing may return a set of entries
Perms(S) == {s \in DistinctSeqs(S, Cardinality(S)) : Len(s) = Cardinality(S)}

\* ------------------------------------------------------------------ state
VARIABLES
    projectPath,   \* _S.config.projectPath of the owning Serverless instance
    config,        \* this._config: component, module, sPath, fullPath
    fields,        \* the entity's own data fields: key -> value or heap reference
    heap,          \* the nested objects: custom objects and functions maps
    data,          \* the document the caller holds and passes to set()
    snap,          \* the document the caller got from the last get()
    last,          \* the outcome of the last operation
    fs,            \* the module's directory on disk
    pc,            \* the asynchronous operation in progress, "idle" when none
    local,         \* the local variables of the operation in progress
    fsLog,         \* the file system and collaborator calls of the current operation
    result,        \* the value the last getPopulated() resolved with
    rt             \* history: a saved entity, to compare a later fresh load with

vars == <<projectPath, config, fields, heap, data, snap, last, fs, pc, local, fsLog,
          result, rt>>

memVars  == <<fields, heap, data, snap>>

\* -------------------------------------------------------------------- heap
ObjCell(v) == [t |-> "obj", v |-> v]
MapCell(m) == [t |-> "map", m |-> m]

\* the cell of an owner for the object under a key
Cell(owner, k) ==
    CASE owner = "e" /\ k = "custom"    -> "e.custom"
      [] owner = "e" /\ k = "functions" -> "e.functions"
      [] owner = "d" /\ k = "custom"    -> "d.custom"
      [] owner = "d" /\ k = "functions" -> "d.functions"
      [] owner = "s" /\ k = "custom"    -> "s.custom"
      [] owner = "s" /\ k = "functions" -> "s.functions"
      [] owner = "t" /\ k = "custom"    -> "t.custom"
      [] owner = "t" /\ k = "functions" -> "t.functions"

Holds(doc, k) == k \in DOMAIN doc

\* Where the object a document holds under key k lives once the entity (f),
\* the data document (d) and the get() result (s) are stored: object identity
\* (which documents share it) is kept, only the cell names change.
HomeOf(owner, k, f, d, s) ==
    CASE owner = "e" -> Cell("e", k)
      [] owner = "d" -> IF d[k] = f[k] THEN Cell("e", k) ELSE Cell("d", k)
      [] owner = "s" -> IF s[k] = f[k] THEN Cell("e", k)
                        ELSE IF Holds(d, k) /\ s[k] = d[k] THEN Cell("d", k)
                        ELSE Cell("s", k)

Rehome(owner, doc, f, d, s) ==
    [k \in DOMAIN doc |-> IF k \in NestedKeys THEN HomeOf(owner, k, f, d, s) ELSE doc[k]]

\* the heap after the three documents are stored; unreferenced cells are reclaimed
Stored(h, f, d, s) ==
    [r \in Refs |->
        IF \E k \in NestedKeys : r = Cell("e", k)
        THEN h[f[CHOOSE k \in NestedKeys : r = Cell("e", k)]]
        ELSE IF \E k \in NestedKeys : r = Cell("d", k) /\ Holds(d, k) /\ d[k] # f[k]
        THEN h[d[CHOOSE k \in NestedKeys : r = Cell("d", k)]]
        ELSE IF \E k \in NestedKeys :
                    /\ r = Cell("s", k) /\ Holds(s, k) /\ s[k] # f[k]
                    /\ ~(Holds(d, k) /\ s[k] = d[k])
        THEN h[s[CHOOSE k \in NestedKeys : r = Cell("s", k)]]
        ELSE Free]

\* the entity, the caller's documents and the heap become f, d, s over h
Store(f, d, s, h) ==
    /\ fields' = Rehome("e", f, f, d, s)
    /\ data'   = Rehome("d", d, f, d, s)
    /\ snap'   = Rehome("s", s, f, d, s)
    /\ heap'   = Stored(h, f, d, s)

\* ------------------------------------------- the child class (Function)
\* A child in a functions map is a raw literal document or a live entity.
Literal(name, handler) == [kind |-> "lit", name |-> name, handler |-> handler]

Instance(fn, name, handler) ==
    [kind |-> "inst", fn |-> fn, name |-> name, handler |-> handler]

IsInstance(c) == c.kind = "inst"

\* new Function(S, {component, module, function: prop}).set(literal)
FunctionSet(prop, lit) ==
    Instance(prop, IF lit.name = Undef THEN prop ELSE lit.name, lit.handler)

\* Children a caller can put in a document: a literal without a name of its
\* own, a literal that carries a name, and a live entity it constructed itself.
PlainLiteral   == Literal(Undef, "h1")
NamedLiteral   == Literal("f1", "h1")
CallerInstance == Instance("f1", "f1", "h1")

\* Function.get(): the child's exportable document
FunctionGet(inst) == Literal(inst.name, inst.handler)

\* ------------------------------------------------------------ updateConfig
BuildSPath(component, module) ==
    (IF component = Undef THEN <<>> ELSE <<component>>) \o
    (IF module = Undef THEN <<>> ELSE <<module>>)

ParseSPath(sPath) ==
    [component |-> IF Len(sPath) >= 1 THEN sPath[1] ELSE Undef,
     module    |-> IF Len(sPath) >= 2 THEN sPath[2] ELSE Undef]

ConfigKey(c, k) == IF k \in DOMAIN c THEN c[k] ELSE Undef

\* this._config after updateConfig(c); c is a config object, pp the project path.
\* path.join throws on an undefined part and leaves fullPath as it was.
UpdateConfig(cfg, pp, c) ==
    LET comp == ConfigKey(c, "component")
        mod  == ConfigKey(c, "module")
        c1   == IF comp # Undef \/ mod # Undef
                THEN [cfg EXCEPT !.component = comp, !.module = mod,
                                 !.sPath = BuildSPath(comp, mod)]
                ELSE cfg
        parse == ParseSPath(c1.sPath)
    IN  IF pp # Undef /\ c1.sPath # NoPath
           /\ parse.component # Undef /\ parse.module # Undef
        THEN [c1 EXCEPT !.fullPath = <<pp, parse.component, parse.module>>]
        ELSE c1

EmptyConfig ==
    [component |-> Undef, module |-> Undef, sPath |-> NoPath, fullPath |-> NoPath]

\* ------------------------------------------------------------- constructor
\* The default properties; custom and functions are fresh empty objects.
Defaults(cfg, customRef, fnRef) ==
    [k \in {"name", "custom", "functions"} |->
        CASE k = "name"      -> cfg.module
          [] k = "custom"    -> customRef
          [] k = "functions" -> fnRef]

\* The outcome of an operation: whether it succeeded, the class of the error it
\* failed with ("pending" while its promise is unsettled), for set() the index
\* of the key at which it threw, and the options it was called with.
Outcome(op, ok, err) == [op |-> op, ok |-> ok, err |-> err, at |-> 0, opt |-> "none"]

\* ------------------------------------------------------------- file system
NoFile    == [st |-> "none"]                   \* no such file
BadFile   == [st |-> "bad"]                    \* a file that is not valid JSON
File(doc) == [st |-> "ok", text |-> doc]       \* a file holding a JSON text
NoEntry   == [st |-> "absent"]                 \* no such directory entry
BareDir   == [st |-> "nodesc"]                 \* a directory without s-function.json

\* an entry of the call log: the call and the child it is made on, if any
Call(c)      == [call |-> c, on |-> "-"]
CallOn(c, f) == [call |-> c, on |-> f]

Count(log, c) == Len(SelectSeq(log, LAMBDA e : e.call = c))

NoLocal == [queue |-> <<>>, json |-> EmptyDoc, deep |-> FALSE, pending |-> {}]
NoRt    == [phase |-> "none", view |-> EmptyDoc, names |-> {}, deep |-> FALSE,
            extra |-> FALSE]

\* JSON texts are sequences of <<key, value>> pairs in the order of the keys
KeyOrder == <<"name", "custom", "functions">>

\* JSON.stringify of a document held by value
Stringify(doc) ==
    LET present == SelectSeq(KeyOrder, LAMBDA k : k \in DOMAIN doc)
    IN  [i \in DOMAIN present |-> <<present[i], doc[present[i]]>>]

\* JSON.parse
Parse(text) ==
    [k \in {text[i][1] : i \in DOMAIN text} |->
        text[CHOOSE i \in DOMAIN text : text[i][1] = k][2]]

\* The module directories a run may start from: absent; present without a
\* descriptor; present with a malformed descriptor; present with a valid
\* descriptor (which carries a stale functions field) and any combination of
\* child entries.
StaleFunctions == MapCell(<<<<"f2", PlainLiteral>>>>)

InitialDescriptor ==
    File(Stringify([k \in {"name", "custom", "functions"} |->
                       CASE k = "name" -> "x"
                         [] k = "custom" -> ObjCell("c1")
                         [] k = "functions" -> StaleFunctions]))

InitialEntries == {NoEntry, BareDir, BadFile, File(Literal(Undef, "h1"))}

InitialDisks ==
    {[dir |-> b, descriptor |-> NoFile, templates |-> NoFile,
      fns |-> [f \in FnNames |-> NoEntry]] : b \in BOOLEAN}
    \cup {[dir |-> TRUE, descriptor |-> BadFile, templates |-> File(EmptyDoc),
           fns |-> [f \in FnNames |-> NoEntry]]}
    \cup {[dir |-> TRUE, descriptor |-> InitialDescriptor, templates |-> File(EmptyDoc),
           fns |-> e] : e \in [FnNames -> InitialEntries]}

\* The state after new ServerlessModule(S, {component, module}), for a project
\* path of roots and a module directory of disks.
Constructed(roots, disks) ==
    /\ projectPath \in roots
    /\ config = UpdateConfig(EmptyConfig, projectPath,
                             [k \in {"component", "module"} |->
                                 IF k = "component" THEN Component ELSE Module])
    /\ fields = Defaults(config, "e.custom", "e.functions")
    /\ heap = [r \in Refs |-> CASE r = "e.custom"    -> ObjCell("c0")
                                [] r = "e.functions" -> MapCell(<<>>)
                                [] OTHER -> Free]
    /\ data = EmptyDoc
    /\ snap = EmptyDoc
    /\ last = Outcome("construct", TRUE, "none")
    /\ fs \in disks
    /\ pc = "idle"
    /\ local = NoLocal
    /\ fsLog = <<>>
    /\ result = EmptyDoc
    /\ rt = NoRt

NoDisk ==
    [dir |-> FALSE, descriptor |-> NoFile, templates |-> NoFile,
     fns |-> [f \in FnNames |-> NoEntry]]

\* in-memory operations only: any context, nothing on disk
InitMem == Constructed({Undef, ProjectRoot}, {NoDisk})

\* a project with a root and any module directory, or a context without a root
InitDisk ==
    \/ Constructed({ProjectRoot}, InitialDisks)
    \/ Constructed({Undef}, {NoDisk})

\* ------------------------------------------------------ the caller's side
\* the functions maps of at most MaxFns entries with children from C
MapsOver(C) ==
    {m \in UNION {[1 .. n -> FnNames \X C] : n \in 0 .. MaxFns} :
        \A i, j \in DOMAIN m : i # j => m[i][1] # m[j][1]}

\* The caller builds a new literal document with the keys of one of keySets,
\* a custom object of customs and a functions map of maps.
NewData(keySets, customs, maps) ==
    \E keys \in keySets, c \in customs, m \in maps :
        LET d  == [k \in keys |-> CASE k = "name"      -> "x"
                                    [] k = "custom"    -> "t.custom"
                                    [] k = "functions" -> "t.functions"]
            h1 == [heap EXCEPT !["t.custom"] = ObjCell(c), !["t.functions"] = MapCell(m)]
        IN  /\ pc = "idle"
            /\ ("custom" \notin keys => c = CHOOSE x \in customs : TRUE)
            /\ ("functions" \notin keys => m = <<>>)
            /\ Store(fields, d, snap, h1)
            /\ last' = Outcome("newData", TRUE, "none")
            /\ fsLog' = <<>>
            /\ result' = EmptyDoc
            /\ UNCHANGED <<projectPath, config, fs, pc, local, rt>>

AllKeySets == SUBSET {"name", "custom", "functions"}

\* --------------------------------------------------------------------- set
FirstInstance_OnlyFirstKey(m) ==
    IF m # <<>> /\ IsInstance(m[1][2]) THEN 1 ELSE 0

\* The index of the first live entity in a functions map, 0 when there is none.
FirstInstance(m) ==
    IF \E i \in DOMAIN m : IsInstance(m[i][2])
    THEN CHOOSE i \in DOMAIN m :
            /\ IsInstance(m[i][2])
            /\ \A j \in 1 .. i - 1 : ~IsInstance(m[j][2])
    ELSE 0

Materialize_KeepsLiteral(m, n) == m

\* data.functions[prop] = instance.set(data.functions[prop]) for the first n keys
Materialize(m, n) ==
    [i \in DOMAIN m |-> IF i <= n THEN <<m[i][1], FunctionSet(m[i][1], m[i][2])>>
                        ELSE m[i]]

DataMap == IF "functions" \in DOMAIN data THEN heap[data["functions"]].m ELSE <<>>

Set ==
    LET m     == DataMap
        first == FirstInstance(m)
        done  == IF first = 0 THEN Len(m) ELSE first - 1
        h1    == IF "functions" \in DOMAIN data
                 THEN [heap EXCEPT ![data["functions"]] = MapCell(Materialize(m, done))]
                 ELSE heap
    IN  /\ pc = "idle"
        /\ IF first # 0
           THEN /\ Store(fields, data, snap, h1)
                /\ last' = [Outcome("set", FALSE, "SError") EXCEPT !.at = first]
           ELSE /\ Store(Assign(fields, data), data, snap, h1)
                /\ last' = Outcome("set", TRUE, "none")
        /\ rt' = NoRt
        /\ fsLog' = <<>>
        /\ result' = EmptyDoc
        /\ UNCHANGED <<projectPath, config, fs, pc, local>>

\* --------------------------------------------------------------------- get
ClonedRef_Shallow(k) == fields[k]

\* _.cloneDeep(this): the nested object under key k is copied into a new cell
ClonedRef(k) == Cell("t", k)

CloneDeep(h) ==
    [r \in Refs |-> IF \E k \in NestedKeys : r = ClonedRef(k)
                    THEN h[fields[CHOOSE k \in NestedKeys : r = ClonedRef(k)]]
                    ELSE h[r]]

\* clone.functions[prop] = this.functions[prop].get() for every child
ExportChildren(m) == [i \in DOMAIN m |-> <<m[i][1], FunctionGet(m[i][2])>>]

\* SUtils.exportClassData: the own data fields, without _S and _config
ExportClassData(doc) == [k \in {j \in DOMAIN doc : j \notin {"_S", "_config"}} |-> doc[k]]

Get ==
    LET clone == [k \in DOMAIN fields |->
                    IF k \in NestedKeys THEN ClonedRef(k) ELSE fields[k]]
        h1    == CloneDeep(heap)
        fr    == clone["functions"]
        h2    == [h1 EXCEPT ![fr] = MapCell(ExportChildren(h1[fields["functions"]].m))]
    IN  /\ pc = "idle"
        /\ Store(fields, data, ExportClassData(clone), h2)
        /\ last' = Outcome("get", TRUE, "none")
        /\ fsLog' = <<>>
        /\ result' = EmptyDoc
        /\ UNCHANGED <<projectPath, config, fs, pc, local, rt>>

\* ------------------------------------------------------------------- views
\* a document by value: every reference replaced by the object it refers to
View(doc, h) == [k \in DOMAIN doc |-> IF k \in NestedKeys THEN h[doc[k]] ELSE doc[k]]

EntityView == View(fields, heap)

\* the children of the live entity
Children == heap[fields["functions"]].m

\* -------------------------------------------------------------------- load
\* Function.load() of the child in directory entry e
FunctionLoad(f, e) ==
    Instance(f, IF e.text.name = Undef THEN f ELSE e.text.name, e.text.handler)

\* fs.readdirSync(fullPath): the names in the module's directory. The child
\* directories come in any order, the module's own two files after them.
FileEntries(disk) ==
    (IF disk.descriptor.st # "none" THEN <<"s-module.json">> ELSE <<>>)
    \o (IF disk.templates.st # "none" THEN <<"s-templates.json">> ELSE <<>>)

Listings(disk) ==
    {order \o FileEntries(disk) :
        order \in Perms({f \in FnNames : disk.fns[f].st # "absent"})}

\* SUtils.fileExistsSync(path.join(fullPath, entry, 's-function.json'))
HasFunctionJson(disk, entry) ==
    entry \in FnNames /\ disk.fns[entry].st \in {"ok", "bad"}

ResetFunctions_KeepsDocument(json) ==
    [k \in DOMAIN json \cup {"functions"} |->
        IF k \in DOMAIN json THEN json[k] ELSE MapCell(<<>>)]

\* moduleJson.functions = {}
ResetFunctions(json) == [k \in DOMAIN json \cup {"functions"} |->
                            IF k = "functions" THEN MapCell(<<>>) ELSE json[k]]

EachAborts_Swallows(rejected) == FALSE

\* a rejected promise in the .each chain ends the iteration
EachAborts(rejected) == rejected

ProjectPathMissing_Unchecked == FALSE

\* !_this._S.config.projectPath
ProjectPathMissing == projectPath = Undef

Fail(op, err) ==
    /\ last' = Outcome(op, FALSE, err)
    /\ pc' = "idle"
    /\ local' = NoLocal

\* load(), up to the directory listing
LoadStart ==
    /\ pc = "idle"
    /\ rt' = IF rt.phase = "fresh" THEN [rt EXCEPT !.phase = "loading"] ELSE NoRt
    /\ result' = EmptyDoc
    /\ UNCHANGED <<projectPath, config, memVars>>
    /\ IF ProjectPathMissing
       THEN Fail("load", "SError") /\ fsLog' = <<>> /\ UNCHANGED fs
       ELSE IF config.fullPath = NoPath
       THEN Fail("load", "TypeError") /\ fsLog' = <<>> /\ UNCHANGED fs
       ELSE IF fs.descriptor.st = "none"
       THEN Fail("load", "SError") /\ fsLog' = <<Call("exists")>> /\ UNCHANGED fs
       ELSE IF fs.descriptor.st = "bad"
       THEN Fail("load", "IOError") /\ fsLog' = <<Call("exists"), Call("read")>> /\ UNCHANGED fs
       ELSE \E order \in Listings(fs) :
               /\ pc' = "load"
               /\ local' = [NoLocal EXCEPT !.queue = order,
                               !.json = ResetFunctions(Parse(fs.descriptor.text))]
               /\ fsLog' = <<Call("exists"), Call("read"), Call("readdir")>>
               /\ last' = Outcome("load", FALSE, "pending")
               /\ UNCHANGED fs

\* one turn of .each(function(f, i) {...}): the next directory entry
LoadEach ==
    /\ pc = "load" /\ local.queue # <<>>
    /\ UNCHANGED <<projectPath, config, memVars, fs, result>>
    /\ LET f == Head(local.queue)
       IN  IF ~HasFunctionJson(fs, f)
           THEN /\ local' = [local EXCEPT !.queue = Tail(@)]
                /\ fsLog' = Append(fsLog, Call("exists"))
                /\ UNCHANGED <<pc, last, rt>>
           ELSE IF EachAborts(fs.fns[f].st = "bad")
           THEN /\ Fail("load", "IOError")
                /\ fsLog' = fsLog \o <<Call("exists"), CallOn("childLoad", f)>>
                /\ rt' = NoRt
           ELSE /\ local' = [local EXCEPT !.queue = Tail(@),
                                !.json = [@ EXCEPT !["functions"] = MapCell(
                                   IF fs.fns[f].st = "bad" THEN @.m
                                   ELSE Put(@.m, f, FunctionLoad(f, fs.fns[f])))]]
                /\ fsLog' = fsLog \o <<Call("exists"), CallOn("childLoad", f)>>
                /\ UNCHANGED <<pc, last, rt>>

\* _.assign(_this, moduleJson): the parsed objects become the entity's own
LoadMerge ==
    /\ pc = "load" /\ local.queue = <<>>
    /\ LET json == local.json
           refs == [k \in DOMAIN json |-> IF k \in NestedKeys THEN Cell("t", k) ELSE json[k]]
           h1   == [r \in Refs |-> IF \E k \in NestedKeys \cap DOMAIN json : r = Cell("t", k)
                                   THEN json[CHOOSE k \in NestedKeys \cap DOMAIN json :
                                                r = Cell("t", k)]
                                   ELSE heap[r]]
       IN  Store(Assign(fields, refs), data, snap, h1)
    /\ last' = Outcome("load", TRUE, "none")
    /\ pc' = "idle"
    /\ local' = NoLocal
    /\ rt' = IF rt.phase = "loading" THEN [rt EXCEPT !.phase = "loaded"] ELSE NoRt
    /\ UNCHANGED <<projectPath, config, fs, fsLog, result>>

\* a new entity with the same identity replaces the one the caller held
Construct ==
    /\ pc = "idle"
    /\ config' = UpdateConfig(EmptyConfig, projectPath,
                              [k \in {"component", "module"} |->
                                  IF k = "component" THEN Component ELSE Module])
    /\ LET f  == Defaults(config', "t.custom", "t.functions")
           h1 == [heap EXCEPT !["t.custom"] = ObjCell("c0"), !["t.functions"] = MapCell(<<>>)]
       IN  Store(f, data, snap, h1)
    /\ last' = Outcome("construct", TRUE, "none")
    /\ rt' = IF rt.phase = "saved" THEN [rt EXCEPT !.phase = "fresh"] ELSE NoRt
    /\ fsLog' = <<>>
    /\ result' = EmptyDoc
    /\ UNCHANGED <<projectPath, fs, pc, local>>

\* -------------------------------------------------------------------- save
\* what get() returns, by value
Exported ==
    ExportClassData([k \in DOMAIN fields |->
        CASE k = "functions" -> MapCell(ExportChildren(heap[fields[k]].m))
          [] k = "custom"    -> heap[fields[k]]
          [] OTHER           -> fields[k]])

StripFunctions_Keeps(doc) == doc

\* if (clone.functions) delete clone.functions
StripFunctions(doc) == IF "functions" \in DOMAIN doc THEN Without(doc, "functions") ELSE doc

ChildQueue_IgnoresDeep(deep) == <<>>

\* Object.keys(_this.functions) when options.deep is set
ChildQueue(deep) ==
    IF deep THEN [i \in DOMAIN heap[fields["functions"]].m |-> heap[fields["functions"]].m[i][1]]
    ELSE <<>>

\* Function.save() of a child: it creates its own directory when it has no
\* descriptor yet, which fails on a directory that already exists
FunctionSaveFails(e) == e.st = "nodesc"

MkdirFails_Never(disk) == FALSE

\* fs.mkdirSync(fullPath) throws when the directory exists
MkdirFails(disk) == disk.dir

CreateCalls_Reversed == <<Call("writeTemplates"), Call("mkdir")>>

\* _create(): the two calls in the order of the arguments of writeDeferred.push
CreateCalls == <<Call("mkdir"), Call("writeTemplates")>>

\* save(options), up to the end of the first callback
SaveStart(deep) ==
    /\ pc = "idle"
    /\ rt' = NoRt
    /\ result' = EmptyDoc
    /\ UNCHANGED <<projectPath, config, memVars>>
    /\ IF ProjectPathMissing
       THEN Fail("save", "SError") /\ fsLog' = <<>> /\ UNCHANGED fs
       ELSE IF config.fullPath = NoPath
       THEN Fail("save", "TypeError") /\ fsLog' = <<>> /\ UNCHANGED fs
       ELSE IF fs.descriptor.st # "none"
       THEN /\ pc' = "save.children"
            /\ local' = [NoLocal EXCEPT !.queue = ChildQueue(deep), !.deep = deep]
            /\ fsLog' = <<Call("exists")>>
            /\ last' = Outcome("save", FALSE, "pending")
            /\ UNCHANGED fs
       ELSE IF MkdirFails(fs)
       THEN Fail("save", "IOError") /\ fsLog' = <<Call("exists"), Call("mkdir")>> /\ UNCHANGED fs
       ELSE /\ pc' = "save.create"
            /\ local' = [NoLocal EXCEPT !.deep = deep]
            /\ fs' = [fs EXCEPT !.dir = TRUE]
            /\ fsLog' = <<Call("exists")>> \o CreateCalls
            /\ last' = Outcome("save", FALSE, "pending")

\* _create(): BbPromise.all resolves once the templates file is written
SaveCreated ==
    /\ pc = "save.create"
    /\ fs' = [fs EXCEPT !.templates = File(EmptyDoc)]
    /\ pc' = "save.children"
    /\ local' = [local EXCEPT !.queue = ChildQueue(local.deep)]
    /\ fsLog' = Append(fsLog, Call("templatesWritten"))
    /\ UNCHANGED <<projectPath, config, memVars, last, rt, result>>

EachMayStart_Unordered(inflight) == TRUE

\* .each calls the callback for the next key once the promise the previous
\* call returned is settled
EachMayStart(inflight) == inflight = {}

\* one turn of .each(function(f) { return _this.functions[f].save() }): the
\* child's save() is called
SaveChild ==
    /\ pc = "save.children" /\ local.queue # <<>>
    /\ EachMayStart(local.pending)
    /\ local' = [local EXCEPT !.queue = Tail(@), !.pending = @ \cup {Head(local.queue)}]
    /\ fsLog' = Append(fsLog, CallOn("childSave", Head(local.queue)))
    /\ UNCHANGED <<projectPath, config, memVars, fs, pc, last, rt, result>>

\* the promise of a child's save() settles
SaveChildDone ==
    /\ pc = "save.children"
    /\ UNCHANGED <<projectPath, config, memVars, rt, result>>
    /\ \E f \in local.pending :
           IF EachAborts(FunctionSaveFails(fs.fns[f]))
           THEN /\ Fail("save", "IOError")
                /\ fsLog' = Append(fsLog, CallOn("childSaveFailed", f))
                /\ UNCHANGED fs
           ELSE /\ local' = [local EXCEPT !.pending = @ \ {f}]
                /\ fs' = IF FunctionSaveFails(fs.fns[f]) THEN fs
                         ELSE [fs EXCEPT !.fns[f] = File(FunctionGet(ValueAt(Children, f)))]
                /\ fsLog' = Append(fsLog, CallOn(IF FunctionSaveFails(fs.fns[f])
                                                 THEN "childSaveFailed" ELSE "childSaved", f))
                /\ UNCHANGED <<pc, last>>

\* the last callbacks: get(), strip functions, write s-module.json
SaveWrite ==
    /\ pc = "save.children" /\ local.queue = <<>> /\ local.pending = {}
    /\ fs' = [fs EXCEPT !.descriptor = File(Stringify(StripFunctions(Exported)))]
    /\ fsLog' = Append(fsLog, Call("writeDescriptor"))
    /\ last' = [Outcome("save", TRUE, "none") EXCEPT
                   !.opt = IF local.deep THEN "deep" ELSE "shallow"]
    /\ pc' = "idle"
    /\ local' = NoLocal
    /\ rt' = [phase |-> "saved", view |-> StripFunctions(Exported),
              names |-> Keys(Children), deep |-> local.deep,
              extra |-> \E f \in FnNames \ Keys(Children) : fs.fns[f].st \in {"ok", "bad"}]
    /\ UNCHANGED <<projectPath, config, memVars, result>>

\* ------------------------------------------------------------ getPopulated
Stage  == "dev"
Region == "us"

\* the options a caller may pass: none at all, one of the two missing, both
OptionSets == {"none", "nostage", "noregion", "both"}

OptionsInvalid_StageOnly(options) == options \in {"none", "nostage"}

\* !options.stage || !options.region
OptionsInvalid(options) == options # "both"

\* SUtils.populate(S, clone, stage, region): a copy with the placeholders resolved
Populate(doc, stage, region) ==
    [k \in DOMAIN doc \cup {"stage", "region"} |->
        CASE k = "stage"  -> stage
          [] k = "region" -> region
          [] OTHER        -> doc[k]]

\* Function.getPopulated(options) of a child
FunctionPopulated(child, stage, region) ==
    [kind |-> "populated", name |-> child.name, handler |-> child.handler,
     stage |-> stage, region |-> region]

\* getPopulated(options) up to the call of SUtils.populate
PopStart(options) ==
    /\ pc = "idle"
    /\ fsLog' = IF OptionsInvalid(options) \/ ProjectPathMissing THEN <<>>
                ELSE <<Call("populate")>>
    /\ result' = EmptyDoc
    /\ UNCHANGED <<projectPath, config, memVars, fs, rt>>
    /\ IF OptionsInvalid(options) \/ ProjectPathMissing
       THEN /\ last' = [Outcome("getPopulated", FALSE, "SError") EXCEPT !.opt = options]
            /\ UNCHANGED <<pc, local>>
       ELSE /\ pc' = "pop.wait"
            /\ local' = [NoLocal EXCEPT !.json =
                            [View(fields, heap) EXCEPT !["functions"] = MapCell(<<>>)]]
            /\ last' = [Outcome("getPopulated", FALSE, "pending") EXCEPT !.opt = options]

\* the first callback: clone = data, then one getPopulated per child, unjoined
PopTop ==
    /\ pc = "pop.wait"
    /\ pc' = "pop.children"
    /\ local' = [local EXCEPT
                    !.json = [Populate(local.json, Stage, Region) EXCEPT
                                 !["functions"] = MapCell(<<>>)],
                    !.pending = Keys(Children)]
    /\ fsLog' = fsLog \o [i \in DOMAIN Children |-> CallOn("childPopulate", Children[i][1])]
    /\ UNCHANGED <<projectPath, config, memVars, fs, last, result, rt>>

\* A child's getPopulated settles. When it resolves, the callback runs:
\* clone.functions[prop] = newData. When it rejects, nothing handles the
\* rejection: the promise of the callback is neither returned nor caught.
PopChildDone ==
    /\ pc \in {"pop.children", "pop.late"}
    /\ \E f \in local.pending, resolved \in BOOLEAN :
        /\ local' = [local EXCEPT
                        !.pending = @ \ {f},
                        !.json = IF resolved
                                 THEN [@ EXCEPT !["functions"] = MapCell(
                                         Put(@.m, f, FunctionPopulated(ValueAt(Children, f),
                                                                       Stage, Region)))]
                                 ELSE @]
        /\ fsLog' = IF resolved THEN fsLog
                    ELSE Append(fsLog, CallOn("childPopulateRejected", f))
        /\ pc' = IF pc = "pop.late" /\ local.pending = {f} THEN "idle" ELSE pc
    /\ UNCHANGED <<projectPath, config, memVars, fs, last, result, rt>>

\* the second callback: return clone
PopResolve ==
    /\ pc = "pop.children"
    /\ result' = local.json
    /\ last' = [last EXCEPT !.ok = TRUE, !.err = "none"]
    /\ pc' = IF local.pending = {} THEN "idle" ELSE "pop.late"
    /\ UNCHANGED <<projectPath, config, memVars, fs, local, fsLog, rt>>

\* ------------------------------------- updateConfig, called after construction
\* the config objects a caller may pass: any of the two keys may be missing
ConfigObjects ==
    {c \in UNION {[ks -> {"c", "c2", "m", "m2"}] : ks \in SUBSET {"component", "module"}} :
        /\ "component" \in DOMAIN c => c["component"] \in {"c", "c2"}
        /\ "module" \in DOMAIN c => c["module"] \in {"m", "m2"}}

\* how updateConfig was called: without a config, with {}, with one key, with both
ConfigShape(given, c) ==
    IF ~given THEN "absent"
    ELSE IF DOMAIN c = {} THEN "empty"
    ELSE IF DOMAIN c = {"component", "module"} THEN "full"
    ELSE "partial"

\* path.join(projectPath, parse.component, parse.module) throws on an undefined part
JoinThrows(pp, sPath) ==
    /\ pp # Undef /\ sPath # NoPath
    /\ (ParseSPath(sPath).component = Undef \/ ParseSPath(sPath).module = Undef)

\* updateConfig(config) on the constructed entity
Reconfigure ==
    \E given \in BOOLEAN, c \in ConfigObjects :
        /\ pc = "idle"
        /\ ~given => DOMAIN c = {}
        /\ config' = IF given THEN UpdateConfig(config, projectPath, c) ELSE config
        /\ last' = [(IF given /\ JoinThrows(projectPath, config'.sPath)
                     THEN Outcome("updateConfig", FALSE, "TypeError")
                     ELSE Outcome("updateConfig", TRUE, "none"))
                        EXCEPT !.opt = ConfigShape(given, c)]
        /\ rt' = NoRt
        /\ fsLog' = <<>>
        /\ result' = EmptyDoc
        /\ UNCHANGED <<projectPath, memVars, fs, pc, local>>

\* the owning context learns its project root after the entity was constructed
LearnProjectRoot ==
    /\ pc = "idle"
    /\ projectPath = Undef
    /\ projectPath' = ProjectRoot
    /\ last' = Outcome("projectPath", TRUE, "none")
    /\ rt' = NoRt
    /\ fsLog' = <<>>
    /\ result' = EmptyDoc
    /\ UNCHANGED <<config, memVars, fs, pc, local>>

\* ------------------------------------------------------------ getTemplates
\* path.join(fullPath, 's-templates.json') throws on an undefined fullPath; a
\* throw in the promise's executor rejects the promise
GetTemplates ==
    /\ pc = "idle"
    /\ rt' = rt
    /\ UNCHANGED <<projectPath, config, memVars, fs, pc, local>>
    /\ IF config.fullPath = NoPath
       THEN /\ last' = Outcome("getTemplates", FALSE, "TypeError")
            /\ fsLog' = <<>>
            /\ result' = EmptyDoc
       ELSE IF fs.templates.st = "none"
       THEN /\ last' = Outcome("getTemplates", TRUE, "none")
            /\ fsLog' = <<Call("exists")>>
            /\ result' = EmptyDoc
       ELSE IF fs.templates.st = "bad"
       THEN /\ last' = Outcome("getTemplates", FALSE, "IOError")
            /\ fsLog' = <<Call("exists"), Call("read")>>
            /\ result' = EmptyDoc
       ELSE /\ last' = Outcome("getTemplates", TRUE, "none")
            /\ fsLog' = <<Call("exists"), Call("read")>>
            /\ result' = Parse(fs.templates.text)

\* ------------------------------------------- in-place mutation by the caller
\* returned.custom.x = v on the document a get() returned
MutateSnapCustom ==
    /\ pc = "idle"
    /\ Holds(snap, "custom")
    /\ \E v \in CustomVals :
        /\ v # heap[snap["custom"]].v
        /\ heap' = [heap EXCEPT ![snap["custom"]] = ObjCell(v)]
    /\ last' = Outcome("mutateSnap", TRUE, "none")
    /\ fsLog' = <<>>
    /\ result' = EmptyDoc
    /\ UNCHANGED <<projectPath, config, fields, data, snap, fs, pc, local, rt>>

\* returned.functions[k].handler = "h2", or delete returned.functions[k]
MutateSnapChild ==
    /\ pc = "idle"
    /\ Holds(snap, "functions")
    /\ \E k \in Keys(heap[snap["functions"]].m) :
        LET m == heap[snap["functions"]].m
        IN  \/ /\ ValueAt(m, k).handler # "h2"
               /\ heap' = [heap EXCEPT ![snap["functions"]] =
                              MapCell(Put(m, k, [ValueAt(m, k) EXCEPT !.handler = "h2"]))]
            \/ heap' = [heap EXCEPT ![snap["functions"]] = MapCell(Remove(m, k))]
    /\ last' = Outcome("mutateSnap", TRUE, "none")
    /\ fsLog' = <<>>
    /\ result' = EmptyDoc
    /\ UNCHANGED <<projectPath, config, fields, data, snap, fs, pc, local, rt>>

\* entity.custom.x = v on the live entity
MutateEntityCustom ==
    /\ pc = "idle"
    /\ rt' = NoRt
    /\ \E v \in CustomVals :
        /\ v # heap[fields["custom"]].v
        /\ heap' = [heap EXCEPT ![fields["custom"]] = ObjCell(v)]
    /\ last' = Outcome("mutateEntity", TRUE, "none")
    /\ fsLog' = <<>>
    /\ result' = EmptyDoc
    /\ UNCHANGED <<projectPath, config, fields, data, snap, fs, pc, local>>

\* entity.functions[k].handler = "h2" on the live entity
MutateEntityChild ==
    /\ pc = "idle"
    /\ rt' = NoRt
    /\ \E k \in Keys(heap[fields["functions"]].m) :
        LET m == heap[fields["functions"]].m
        IN  /\ ValueAt(m, k).handler # "h2"
            /\ heap' = [heap EXCEPT ![fields["functions"]] =
                           MapCell(Put(m, k, [ValueAt(m, k) EXCEPT !.handler = "h2"]))]
    /\ last' = Outcome("mutateEntity", TRUE, "none")
    /\ fsLog' = <<>>
    /\ result' = EmptyDoc
    /\ UNCHANGED <<projectPath, config, fields, data, snap, fs, pc, local>>

NextGetSet ==
    \/ NewData(AllKeySets, CustomVals, MapsOver({PlainLiteral, CallerInstance}))
    \/ Set

SpecGetSet == InitMem /\ [][NextGetSet]_vars

NextSnapshot ==
    \/ NewData({{"custom", "functions"}}, CustomVals, MapsOver({PlainLiteral}))
    \/ Set
    \/ Get
    \/ MutateSnapCustom
    \/ MutateSnapChild
    \/ MutateEntityCustom
    \/ MutateEntityChild

SpecSnapshot == InitMem /\ [][NextSnapshot]_vars

NextDisk ==
    \/ NewData({{"name", "custom", "functions"}}, {"c1"},
               MapsOver({PlainLiteral, CallerInstance}))
    \/ Set
    \/ Construct
    \/ LoadStart
    \/ LoadEach
    \/ LoadMerge
    \/ \E deep \in BOOLEAN : SaveStart(deep)
    \/ SaveCreated
    \/ SaveChild
    \/ SaveChildDone
    \/ SaveWrite

SpecDisk == InitDisk /\ [][NextDisk]_vars

NextPop ==
    \/ NewData({{"custom", "functions"}}, CustomVals, MapsOver({PlainLiteral}))
    \/ Set
    \/ \E options \in OptionSets : PopStart(options)
    \/ PopTop
    \/ PopChildDone
    \/ PopResolve

SpecPop == InitMem /\ [][NextPop]_vars

\* set, load, save and getPopulated on one entity, from a project without the
\* module's directory
Next ==
    \/ NewData({{"name", "custom", "functions"}}, {"c1"}, MapsOver({PlainLiteral}))
    \/ Set
    \/ Construct
    \/ LoadStart
    \/ LoadEach
    \/ LoadMerge
    \/ \E deep \in BOOLEAN : SaveStart(deep)
    \/ SaveCreated
    \/ SaveChild
    \/ SaveChildDone
    \/ SaveWrite
    \/ \E options \in OptionSets : PopStart(options)
    \/ PopTop
    \/ PopChildDone
    \/ PopResolve

Init == InitMem

Spec == Init /\ [][Next]_vars

\* The module directories whose function descriptors may carry a name of their
\* own, different from the name of the directory they are in.
NamedDisks ==
    {[dir |-> TRUE, descriptor |-> InitialDescriptor, templates |-> File(EmptyDoc),
      fns |-> e] :
        e \in [FnNames -> {NoEntry, File(Literal(Undef, "h1")), File(Literal("g", "h1"))}]}

InitNames == Constructed({ProjectRoot}, NamedDisks)

\* construct, set and load, with literals and descriptors that carry a name
NextNames ==
    \/ NewData({{"functions"}}, {"c0"}, MapsOver({PlainLiteral, NamedLiteral}))
    \/ Set
    \/ Construct
    \/ LoadStart
    \/ LoadEach
    \/ LoadMerge

SpecNames == InitNames /\ [][NextNames]_vars

\* The node directories getTemplates() may find: no templates document, a
\* malformed one, an empty one, one with an entry; or no directory at all.
TemplateDisks ==
    {[dir |-> TRUE, descriptor |-> InitialDescriptor, templates |-> t,
      fns |-> [f \in FnNames |-> NoEntry]] :
        t \in {NoFile, BadFile, File(EmptyDoc), File(<<<<"t1", "v1">>>>)}}
    \cup {NoDisk}

InitConfig == Constructed({Undef, ProjectRoot}, TemplateDisks)

\* construction, reconfiguration, a project root learnt late, getTemplates
NextConfig ==
    \/ Construct
    \/ Reconfigure
    \/ LearnProjectRoot
    \/ GetTemplates

SpecConfig == InitConfig /\ [][NextConfig]_vars

\* =================================================================== claims

\* ---------------------------------------------------------------------- C1
PopulatedChildren == IF Holds(result, "functions") THEN result["functions"].m ELSE <<>>

\* C1: when getPopulated(options) resolves, the functions map of the returned
\* copy has exactly the keys of the live entity's functions map, each with the
\* result of that child's own getPopulated(options).
C1_PopulatedChildrenComplete ==
    (last.op = "getPopulated" /\ last.ok) =>
        /\ Keys(PopulatedChildren) = Keys(Children)
        /\ \A k \in Keys(Children) :
              ValueAt(PopulatedChildren, k) =
                  FunctionPopulated(ValueAt(Children, k), Stage, Region)

\* ---------------------------------------------------------------------- C2
Discovered == {f \in FnNames : HasFunctionJson(fs, f)}

\* C2: after a successful load() the keys of the functions map are exactly the
\* directory entries that hold a function descriptor, one entry for each.
C2_LoadDiscoversChildren ==
    (last.op = "load" /\ last.ok) =>
        /\ Keys(Children) = Discovered
        /\ Len(Children) = Cardinality(Discovered)

\* a load that found one child next to a directory without a descriptor, in a
\* module whose descriptor carried a functions field of its own
C2_Witness ==
    /\ last.op = "load" /\ last.ok
    /\ Keys(Children) = {"f1"}
    /\ fs.fns["f2"].st = "nodesc"
    /\ "functions" \in DOMAIN Parse(fs.descriptor.text)

\* ---------------------------------------------------------------------- C3
ChildLoadFails ==
    /\ pc = "load" /\ local.queue # <<>>
    /\ HasFunctionJson(fs, Head(local.queue))
    /\ fs.fns[Head(local.queue)].st = "bad"

\* C3: no step of load() before the final merge changes the entity, and when a
\* child's load() fails the module's load() ends there, failed with the
\* child's error; no further child is loaded.
C3_ChildLoadFailureAborts ==
    [][/\ (LoadStart \/ LoadEach) => EntityView' = EntityView
       /\ (LoadEach /\ ChildLoadFails) =>
              /\ pc' = "idle"
              /\ last' = Outcome("load", FALSE, "IOError")
              /\ fsLog'[Len(fsLog')] = CallOn("childLoad", Head(local.queue))
      ]_vars

\* the second child failed to load after the first was loaded, on an entity
\* that held a child in memory
C3_Witness ==
    /\ last = Outcome("load", FALSE, "IOError")
    /\ Count(fsLog, "childLoad") = 2
    /\ Len(Children) = 1

\* ---------------------------------------------------------------------- C4
\* C4: without a project root load(), save() and getPopulated() with stage and
\* region fail with the configuration error before any file system call, any
\* populator call and any child operation, and leave the entity as it was.
C4_NoProjectRootFailsFirst ==
    [][(/\ projectPath = Undef
        /\ (LoadStart \/ (\E deep \in BOOLEAN : SaveStart(deep)) \/ PopStart("both")))
       => /\ ~last'.ok /\ last'.err = "SError"
          /\ last'.op \in {"load", "save", "getPopulated"}
          /\ fsLog' = <<>>
          /\ pc' = "idle"
          /\ EntityView' = EntityView /\ config' = config
          /\ fs' = fs
      ]_vars

\* save() failed on an entity with children in a context without a project root
C4_Witness ==
    /\ projectPath = Undef
    /\ last.op = "save" /\ ~last.ok
    /\ Len(Children) = 2

\* ---------------------------------------------------------------------- C5
\* C5: getPopulated fails with the configuration error whenever the options,
\* the stage or the region is absent; the populator and the children are not
\* called.
C5_PopulateRequiresStageAndRegion ==
    (last.op = "getPopulated" /\ last.opt # "both") =>
        /\ ~last.ok /\ last.err = "SError"
        /\ fsLog = <<>>
        /\ pc = "idle"

\* the region alone is missing, on an entity with children and a project root
C5_Witness ==
    /\ last.op = "getPopulated" /\ last.opt = "noregion" /\ ~last.ok
    /\ projectPath = ProjectRoot
    /\ Len(Children) = 2


\* ---------------------------------------------------------------------- C6
DataHasInstance == \E i \in DOMAIN DataMap : IsInstance(DataMap[i][2])

\* C6: set(data) fails whenever data.functions holds at least one live
\* FunctionEntity, at whatever position and whatever the other values are.
C6_SetRejectsInstances ==
    [][(Set /\ DataHasInstance) => (last'.op = "set" /\ ~last'.ok)]_vars

\* set() threw at the second key: a literal came first, the live entity after it
C6_Witness ==
    /\ last.op = "set" /\ ~last.ok /\ last.at = 2
    /\ Len(DataMap) = 2

\* ---------------------------------------------------------------------- C7
GetResult == Exported

SnapView == View(snap, heap)

\* C7: get() changes nothing of the live entity or its children; mutating the
\* returned document never changes what a later get() returns, and mutating
\* the entity never changes a document returned earlier.
C7_GetIsPureProjection ==
    [][/\ Get => (EntityView' = EntityView /\ config' = config)
       /\ (MutateSnapCustom \/ MutateSnapChild) => GetResult' = GetResult
       /\ (MutateEntityCustom \/ MutateEntityChild \/ Set) => SnapView' = SnapView
      ]_vars

\* the returned document was mutated and now differs from the entity it came from
C7_Witness ==
    /\ last.op = "mutateSnap"
    /\ Len(Children) = 2
    /\ Len(heap[snap["functions"]].m) = 1
    /\ heap[snap["custom"]] # heap[fields["custom"]]

\* ---------------------------------------------------------------------- C8
DescriptorFields == StripFunctions(Exported)

\* C8 as stated: a save() followed by a load() on a fresh entity reproduces
\* the descriptor fields and the set of child names.
C8_RoundTripAsStated ==
    rt.phase = "loaded" =>
        /\ DescriptorFields = rt.view
        /\ Keys(Children) = rt.names

\* C8, amended: the descriptor fields are reproduced; the child names are
\* reproduced when the save was deep and the directory held no function
\* descriptor for a name that is not a child of the saved entity.
C8_RoundTrip ==
    rt.phase = "loaded" =>
        /\ DescriptorFields = rt.view
        /\ (rt.deep /\ ~rt.extra) => Keys(Children) = rt.names

\* a deep save of an entity with two children set in memory, loaded again
C8_Witness ==
    /\ rt.phase = "loaded" /\ rt.deep /\ ~rt.extra
    /\ rt.names = {"f1", "f2"}
    /\ rt.view["name"] = "x"

\* ---------------------------------------------------------------------- C9
WrittenKeys == {fs.descriptor.text[i][1] : i \in DOMAIN fs.descriptor.text}

C10_ChildrenAreInstances ==
    \A i \in DOMAIN Children : IsInstance(Children[i][2])

\* children materialized by set(), then replaced by children loaded from disk
C10_Witness ==
    /\ last.op = "load" /\ last.ok
    /\ Len(Children) = 2
    /\ Holds(data, "functions") /\ Len(DataMap) = 1
    /\ IsInstance(DataMap[1][2])

\* --------------------------------------------------------------------- C11
\* C11: every key of the entity's functions map equals the name field of the
\* FunctionEntity stored under it, also after set() of a child literal that
\* carries a name of its own and after load() of a child whose descriptor does.
C11_KeysAreNames ==
    \A i \in DOMAIN Children :
        IsInstance(Children[i][2]) => Children[i][2].name = Children[i][1]

\* --------------------------------------------------------------------- C12
\* C12: the component name and the module name of the identity are both
\* present or both absent, also after updateConfig with only one of the two.
C12_IdentityBothOrNeither ==
    (config.component = Undef) <=> (config.module = Undef)

\* --------------------------------------------------------------------- C13
IdentitySet == config.component # Undef /\ config.module # Undef

\* C13: fullPath is defined exactly when the owning context has a project root
\* and the identity is set, also when the root became known after construction.
C13_FullPathIffRootAndIdentity ==
    (config.fullPath # NoPath) <=> (projectPath # Undef /\ IdentitySet)

\* --------------------------------------------------------------------- C14
\* C14: updateConfig without a config or with an empty config object changes
\* no field of the entity, and a second such call changes nothing either.
C14_EmptyReconfigureIsNoOp ==
    [][(Reconfigure /\ last'.opt \in {"absent", "empty"}) =>
          /\ config' = config
          /\ EntityView' = EntityView
          /\ last'.opt = "empty" => UpdateConfig(config', projectPath', EmptyDoc) = config'
      ]_vars

\* --------------------------------------------------------------------- C18
\* C18: getTemplates() resolves to an empty mapping whenever the templates
\* document does not exist, whatever the entity's state, and fails only when
\* an existing document cannot be read or parsed.
C18_GetTemplatesMissingIsEmpty ==
    last.op = "getTemplates" =>
        /\ fs.templates.st = "none" => (last.ok /\ result = EmptyDoc)
        /\ ~last.ok => fs.templates.st = "bad"

\* --------------------------------------------------------------------- C15
\* C15: in save({deep: true}) a child's save starts only when no other child's
\* save is in flight; when a child's save fails, save() ends there with that
\* child's error: no later child's save is started and the module's
\* descriptor is not written.
C15_DeepSaveIsSequentialAndAborts ==
    [][/\ SaveChild => local.pending = {}
       /\ \A f \in FnNames :
             (SaveChildDone /\ f \in local.pending /\ FunctionSaveFails(fs.fns[f])) =>
                 /\ pc' = "idle"
                 /\ last' = Outcome("save", FALSE, "IOError")
                 /\ fs' = fs
                 /\ fsLog' = Append(fsLog, CallOn("childSaveFailed", f))
       /\ (last'.op = "save" /\ Count(fsLog', "childSaveFailed") > 0) =>
             /\ fsLog'[Len(fsLog')].call = "childSaveFailed"
             /\ Count(fsLog', "writeDescriptor") = 0
             /\ pc' = "idle" /\ ~last'.ok
      ]_vars

\* the second child's save failed after the first child was saved
C15_Witness ==
    /\ last = Outcome("save", FALSE, "IOError")
    /\ Count(fsLog, "childSave") = 2
    /\ Count(fsLog, "childSaved") = 1
    /\ fsLog[Len(fsLog)].call = "childSaveFailed"

\* --------------------------------------------------------------------- C16
\* the position of the first call c in the log, 0 when there is none
Pos(log, c) ==
    IF \E i \in DOMAIN log : log[i].call = c
    THEN CHOOSE i \in DOMAIN log : log[i].call = c /\ \A j \in 1 .. i - 1 : log[j].call # c
    ELSE 0

\* C16: in a save() that creates the scaffolding, the directory is created
\* before the templates write is dispatched, the templates write is complete
\* before any child save starts and before the descriptor is written, and the
\* descriptor write is the last file system effect of any save().
C16_ScaffoldingComesFirst ==
    last.op = "save" =>
        /\ Pos(fsLog, "writeTemplates") > 0 =>
              /\ Pos(fsLog, "mkdir") > 0
              /\ Pos(fsLog, "mkdir") < Pos(fsLog, "writeTemplates")
        /\ Pos(fsLog, "mkdir") > 0 =>
              \A i \in DOMAIN fsLog :
                  fsLog[i].call \in {"childSave", "writeDescriptor"} =>
                      /\ Pos(fsLog, "templatesWritten") > Pos(fsLog, "writeTemplates")
                      /\ Pos(fsLog, "templatesWritten") < i
        /\ \A i \in DOMAIN fsLog : fsLog[i].call = "writeDescriptor" => i = Len(fsLog)

\* a deep save of two children on a node that had no directory yet
C16_Witness ==
    /\ last.op = "save" /\ last.ok /\ last.opt = "deep"
    /\ Pos(fsLog, "mkdir") > 0
    /\ Count(fsLog, "childSaved") = 2

\* --------------------------------------------------------------------- C19
\* C19: save() on a node whose directory exists without a descriptor fails in
\* the scaffolding with the directory's error: the templates write is not
\* dispatched, no child is saved and the descriptor is not written.
C19_SaveFailsOnBareDirectory ==
    [][\A deep \in BOOLEAN :
          (/\ SaveStart(deep)
           /\ ~ProjectPathMissing /\ config.fullPath # NoPath
           /\ fs.dir /\ fs.descriptor.st = "none") =>
              /\ pc' = "idle"
              /\ last' = Outcome("save", FALSE, "IOError")
              /\ fs' = fs
              /\ Count(fsLog', "writeTemplates") = 0
              /\ Count(fsLog', "childSave") = 0
              /\ Count(fsLog', "writeDescriptor") = 0
      ]_vars

\* a save of an entity with two children failed on the existing directory
C19_Witness ==
    /\ last = Outcome("save", FALSE, "IOError")
    /\ fsLog = <<Call("exists"), Call("mkdir")>>
    /\ fs.dir /\ fs.descriptor.st = "none"
    /\ Len(Children) = 2

\* --------------------------------------------------------------------- C17
\* C17: when the getPopulated(options) of a child rejects, the module's
\* getPopulated(options) does not resolve: it fails.
C17_ChildPopulateFailurePropagates ==
    (/\ last.op = "getPopulated" /\ last.err # "pending"
     /\ Count(fsLog, "childPopulateRejected") > 0) => ~last.ok

\* --------------------------------------------------------------------- C20
DataView == View(data, heap)

\* C20: a set(data) that fails on a live FunctionEntity in data.functions
\* leaves the entity's fields and children as they were, and leaves the data
\* document as it was.
C20_FailedSetChangesNothing ==
    [][(Set /\ DataHasInstance) =>
          /\ EntityView' = EntityView /\ config' = config
          /\ DataView' = DataView
      ]_vars

====
